---- MODULE Spec2Model ----
(***************************************************************************)
(* A model of the yoga recommender: the tokenizer and keywordScore of      *)
(* src/src/App.jsx, the ranked/topTwo derivations of YogaRecommenderApp,   *)
(* its event handlers and its catalog/transcript loader.                   *)
(*                                                                         *)
(* Text is a sequence of one-character strings, so that lower-casing,      *)
(* tokenizing, substring search and the "X min" pattern are computed on    *)
(* characters as the JavaScript does.                                      *)
(***************************************************************************)
EXTENDS Integers, Sequences, FiniteSets, TLC

VARIABLES
    query,            \* useState("")            App.jsx:77
    history,          \* useState([])            App.jsx:78
    selected,         \* useState(null): <<>> for null, else <<id>> of the item, App.jsx:79
    list,             \* useState([])            App.jsx:80
    listFilter,       \* useState("")            App.jsx:81
    listSort,         \* useState("score")       App.jsx:82
    transcriptCache,  \* useState({})            App.jsx:89
    VIDEO_DATA,       \* module-level catalog    App.jsx:5
    ranked,           \* the value useMemo holds App.jsx:155
    memoDeps,         \* the dependencies useMemo last computed with, App.jsx:179
    loader,           \* the async catalog/transcript loader, App.jsx:124-152
    request,          \* context.request: its Authorization header, _middleware.js:5
    response          \* what onRequest answers, _middleware.js:10-18

vars == <<query, history, selected, list, listFilter, listSort,
          transcriptCache, VIDEO_DATA, ranked, memoDeps, loader,
          request, response>>

(***************************************************************************)
(* Characters and strings                                                  *)
(***************************************************************************)
Lowers == <<"a", "b", "c", "d", "e", "f", "g", "h", "i", "j", "k", "l", "m",
            "n", "o", "p", "q", "r", "s", "t", "u", "v", "w", "x", "y", "z">>

Uppers == <<"A", "B", "C", "D", "E", "F", "G", "H", "I", "J", "K", "L", "M",
            "N", "O", "P", "Q", "R", "S", "T", "U", "V", "W", "X", "Y", "Z">>

DigitChars == <<"0", "1", "2", "3", "4", "5", "6", "7", "8", "9">>

\* The characters the regular expressions' \s matches (those the inputs use).
Whitespace == {" ", "\n", "\t"}

InSeq(c, seq) == \E i \in DOMAIN seq : seq[i] = c

IndexOf(c, seq) == CHOOSE i \in DOMAIN seq : seq[i] = c

Range(seq) == {seq[i] : i \in DOMAIN seq}

LowerSet == Range(Lowers)

DigitSet == Range(DigitChars)

IsDigit(c) == c \in DigitSet

SetMin(S) == CHOOSE x \in S : \A y \in S : x <= y

SetMax(S) == CHOOSE x \in S : \A y \in S : y <= x

\* The lower-case letter of each upper-case letter.
LowerOf == [c \in Range(Uppers) |-> Lowers[IndexOf(c, Uppers)]]

\* String.prototype.toLowerCase
toLowerCase(s) ==
    [i \in 1..Len(s) |-> IF s[i] \in DOMAIN LowerOf THEN LowerOf[s[i]] ELSE s[i]]

\* String.prototype.trim
trim(s) ==
    LET keep == {i \in 1..Len(s) : s[i] \notin Whitespace}
    IN IF keep = {} THEN <<>> ELSE SubSeq(s, SetMin(keep), SetMax(keep))

\* String.prototype.includes
includes(s, sub) ==
    \E i \in 0..(Len(s) - Len(sub)) : SubSeq(s, i + 1, i + Len(sub)) = sub

\* Array.prototype.join(" ")
RECURSIVE join(_)
join(parts) ==
    IF parts = <<>> THEN <<>>
    ELSE IF Len(parts) = 1 THEN parts[1]
    ELSE parts[1] \o <<" ">> \o join(Tail(parts))

\* A variant of replaceNonAlnum that drops the replacement: punctuation and
\* capital-free symbols stay in the tokens.
replaceNonAlnumKeep(s) == s

\* .replace(/[^a-z0-9\s]/g, " ")
replaceNonAlnum(s) ==
    [i \in 1..Len(s) |->
        IF s[i] \in LowerSet \/ IsDigit(s[i]) \/ s[i] \in Whitespace
        THEN s[i] ELSE " "]

\* .split(/\s+/): the pieces between maximal runs of whitespace, empty pieces
\* at either end included.
RECURSIVE split(_)
split(s) ==
    LET ws == {i \in 1..Len(s) : s[i] \in Whitespace}
    IN IF ws = {} THEN <<s>>
       ELSE LET i == SetMin(ws)
                rest == {k \in (i + 1)..Len(s) : s[k] \notin Whitespace}
                j == IF rest = {} THEN Len(s) + 1 ELSE SetMin(rest)
            IN <<SubSeq(s, 1, i - 1)>> \o split(SubSeq(s, j, Len(s)))

\* function tokenize(s)
tokenize(s) ==
    SelectSeq(split(replaceNonAlnum(toLowerCase(s))), LAMBDA t : t # <<>>)

\* parseInt(digits, 10) on a string of decimal digits
RECURSIVE parseInt(_)
parseInt(ds) ==
    IF ds = <<>> THEN 0
    ELSE 10 * parseInt(SubSeq(ds, 1, Len(ds) - 1))
         + (IndexOf(ds[Len(ds)], DigitChars) - 1)

\* Whether \s*min matches at position k of s.
WsMinAt(s, k) ==
    LET rest == {j \in k..Len(s) : s[j] \notin Whitespace}
    IN rest # {} /\ SubSeq(s, SetMin(rest), SetMin(rest) + 2) = <<"m", "i", "n">>

\* The capture of /(\d{1,2})\s*min/ for a match starting at i (greedy: two
\* digits first), <<>> when there is none.
MatchAt(s, i) ==
    IF ~IsDigit(s[i]) THEN <<>>
    ELSE IF i + 1 <= Len(s) /\ IsDigit(s[i + 1]) /\ WsMinAt(s, i + 2)
         THEN SubSeq(s, i, i + 1)
    ELSE IF WsMinAt(s, i + 1) THEN <<s[i]>>
    ELSE <<>>

\* query.match(/(\d{1,2})\s*min/): m[1] of the leftmost match, <<>> for none.
matchMin(s) ==
    LET starts == {i \in 1..Len(s) : MatchAt(s, i) # <<>>}
    IN IF starts = {} THEN <<>> ELSE MatchAt(s, SetMin(starts))

Abs(n) == IF n < 0 THEN -n ELSE n

Min2(a, b) == IF a <= b THEN a ELSE b

Max2(a, b) == IF a >= b THEN a ELSE b

\* Math.round(num / den) for num >= 0, den > 0: floor(num/den + 1/2).
MathRoundDiv(num, den) == (2 * num + den) \div (2 * den)

(***************************************************************************)
(* Scoring: keywordScore                                                   *)
(***************************************************************************)
\* const KW
KW == [
    knees |->
        <<<<"k", "n", "e", "e">>,
          <<"k", "n", "e", "e", "s">>,
          <<"m", "e", "n", "i", "s", "c", "u", "s">>,
          <<"a", "c", "l">>,
          <<"m", "c", "l">>>>,
    back |->
        <<<<"b", "a", "c", "k">>,
          <<"s", "p", "i", "n", "e">>,
          <<"s", "c", "i", "a", "t", "i", "c", "a">>,
          <<"l", "o", "w">>,
          <<"l", "u", "m", "b", "a", "r">>>>,
    travel |->
        <<<<"p", "l", "a", "n", "e">>,
          <<"f", "l", "i", "g", "h", "t">>,
          <<"t", "r", "a", "v", "e", "l">>,
          <<"r", "o", "a", "d">>,
          <<"j", "e", "t">>,
          <<"l", "a", "g">>>>,
    desk |->
        <<<<"d", "e", "s", "k">>,
          <<"s", "i", "t", "t", "i", "n", "g">>,
          <<"c", "h", "a", "i", "r">>,
          <<"o", "f", "f", "i", "c", "e">>>>,
    stiff |->
        <<<<"s", "t", "i", "f", "f">>,
          <<"t", "i", "g", "h", "t">>,
          <<"s", "o", "r", "e">>,
          <<"a", "c", "h", "y">>>>,
    energy |->
        <<<<"e", "n", "e", "r", "g", "i", "z", "e">>,
          <<"e", "n", "e", "r", "g", "y">>,
          <<"s", "w", "e", "a", "t">>,
          <<"w", "o", "r", "k">>,
          <<"w", "o", "r", "k", "o", "u", "t">>>>,
    relax |->
        <<<<"r", "e", "l", "a", "x">>,
          <<"r", "e", "c", "o", "v", "e", "r">>,
          <<"g", "e", "n", "t", "l", "e">>,
          <<"r", "e", "s", "t", "o", "r", "e">>,
          <<"r", "e", "c", "o", "v", "e", "r", "y">>>>]

\* The string literals of keywordScore and recommend.
Lit == [
    trip |-> <<"t", "r", "i", "p">>,
    back |-> <<"b", "a", "c", "k">>,
    quick |-> <<"q", "u", "i", "c", "k">>,
    short |-> <<"s", "h", "o", "r", "t">>,
    acute_knee_pain |-> <<"a", "c", "u", "t", "e", " ", "k", "n", "e", "e", " ", "p", "a", "i", "n">>,
    undefined |-> <<"u", "n", "d", "e", "f", "i", "n", "e", "d">>,
    no_input |-> <<"(", "n", "o", " ", "i", "n", "p", "u", "t", ")">>,
    Recommended |-> <<"R", "e", "c", "o", "m", "m", "e", "n", "d", "e", "d", ":", " ">>]

\* v.f || d : the field, or d when it is absent.
Field(v, f, d) == IF f \in DOMAIN v THEN v[f] ELSE d

\* A variant of has that matches a category word inside a longer token.
hasSubstring(q, arr) == \E i \in DOMAIN arr : \E t \in q : includes(t, arr[i])

\* const has = (arr) => arr.some((w) => q.has(w))
has(q, arr) == \E i \in DOMAIN arr : arr[i] \in q

\* A variant of tagMatching that also counts a tag token a query token is
\* part of ("knee" in "knees").
RECURSIVE tagMatchingLoose(_, _, _)
tagMatchingLoose(q, tags, weight) ==
    IF tags = <<>> THEN 0
    ELSE LET toks == tokenize(Head(tags))
         IN weight * Cardinality({i \in DOMAIN toks :
                                     \E t \in q : includes(toks[i], t)})
            + tagMatchingLoose(q, Tail(tags), weight)

\* A variant of tagMatching that stops at the first tag with a matching token.
RECURSIVE tagMatchingFirst(_, _, _)
tagMatchingFirst(q, tags, weight) ==
    IF tags = <<>> THEN 0
    ELSE LET toks == tokenize(Head(tags))
             n == Cardinality({i \in DOMAIN toks : toks[i] \in q})
         IN IF n > 0 THEN weight * n
            ELSE tagMatchingFirst(q, Tail(tags), weight)

\* for (const t of tokenize(f)) if (q.has(t)) score += weight, over every tag f
RECURSIVE tagMatching(_, _, _)
tagMatching(q, tags, weight) ==
    IF tags = <<>> THEN 0
    ELSE LET toks == tokenize(Head(tags))
         IN weight * Cardinality({i \in DOMAIN toks : toks[i] \in q})
            + tagMatching(q, Tail(tags), weight)

\* Focus/body part matching, intents, vibes
tagScore(q, video) ==
    tagMatching(q, Field(video, "focuses", <<>>), 3)
    + tagMatching(q, Field(video, "intents", <<>>), 2)
    + tagMatching(q, Field(video, "vibe", <<>>), 1)

\* Heuristics
heuristics(q) ==
    (IF has(q, KW.travel) \/ (Lit.trip \in q /\ Lit.back \in q) THEN 4 ELSE 0)
    + (IF has(q, KW.desk) THEN 3 ELSE 0)
    + (IF has(q, KW.energy) THEN 2 ELSE 0)
    + (IF has(q, KW.relax) \/ has(q, KW.stiff) THEN 1 ELSE 0)

\* A variant of contraindication that forgets to look at the query.
contraindicationAlways(q, video) ==
    IF InSeq(Lit.acute_knee_pain, Field(video, "contraindications", <<>>))
    THEN -2 ELSE 0

\* Contraindications: lightly downrank
contraindication(q, video) ==
    IF has(q, KW.knees)
       /\ InSeq(Lit.acute_knee_pain, Field(video, "contraindications", <<>>))
    THEN -2 ELSE 0

\* Time preference "X min"
timePreference(qs, video) ==
    LET m == matchMin(qs)
    IN IF m = <<>> THEN 0
       ELSE LET want == parseInt(m)
                diff == Abs(Field(video, "lengthMin", 0) - want)
            IN Max2(0, 4 - Min2(4, MathRoundDiv(diff, 5)))

\* if (q.has("quick") || q.has("short")) if (video.lengthMin <= 10) score += 2
\* (undefined <= 10 is false)
quickPreference(q, video) ==
    IF (Lit.quick \in q \/ Lit.short \in q)
       /\ "lengthMin" \in DOMAIN video /\ video.lengthMin <= 10
    THEN 2 ELSE 0

\* Transcript boosting without Math.min(boost, 6).
transcriptBoostUncapped(q, video, cache) ==
    LET id == Field(video, "id", "undefined")
        t == IF id \in DOMAIN cache THEN cache[id] ELSE <<>>
    IN IF t = <<>> THEN 0
       ELSE Cardinality({token \in q : includes(t, token)})

\* Transcript boosting (simple contains); an absent or empty entry is falsy
transcriptBoost(q, video, cache) ==
    LET id == Field(video, "id", "undefined")
        t == IF id \in DOMAIN cache THEN cache[id] ELSE <<>>
    IN IF t = <<>> THEN 0
       ELSE Min2(Cardinality({token \in q : includes(t, token)}), 6)

\* function keywordScore(query, video, transcriptCache)
keywordScore(qs, video, cache) ==
    LET q == Range(tokenize(qs))
    IN tagScore(q, video) + heuristics(q) + contraindication(q, video)
       + timePreference(qs, video) + quickPreference(q, video)
       + transcriptBoost(q, video, cache)

(***************************************************************************)
(* Ranking: the ranked useMemo and topTwo                                  *)
(***************************************************************************)
\* { ...v, _score: q ? keywordScore(q, v, transcriptCache) : 0 }
withScore(qs, v, cache) ==
    LET q == trim(qs)
    IN ("_score" :> (IF q # <<>> THEN keywordScore(q, v, cache) ELSE 0)) @@ v

\* list.map(...)
withScores(qs, lst, cache) ==
    [i \in 1..Len(lst) |-> withScore(qs, lst[i], cache)]

\* (v.focuses || []).concat(v.intents || [], v.vibe || [], v.equipment || [],
\*                          v.level || [], v.title || "").join(" ")
filterText(v) ==
    join(Field(v, "focuses", <<>>) \o Field(v, "intents", <<>>)
         \o Field(v, "vibe", <<>>) \o Field(v, "equipment", <<>>)
         \o (IF Field(v, "level", <<>>) = <<>> THEN <<>> ELSE <<v.level>>)
         \o <<Field(v, "title", <<>>)>>)

\* listFilter ? withScores.filter(...includes(listFilter.toLowerCase())) : withScores
filtered(scored, flt) ==
    IF flt = <<>> THEN scored
    ELSE SelectSeq(scored,
             LAMBDA v : includes(toLowerCase(filterText(v)), toLowerCase(flt)))

\* String.prototype.localeCompare on lower-case ASCII words: alphabetical
\* order, a proper prefix first.
RECURSIVE localeCompare(_, _)
localeCompare(a, b) ==
    IF a = <<>> /\ b = <<>> THEN 0
    ELSE IF a = <<>> THEN -1
    ELSE IF b = <<>> THEN 1
    ELSE IF Head(a) = Head(b) THEN localeCompare(Tail(a), Tail(b))
    ELSE IF IndexOf(Head(a), Lowers) < IndexOf(Head(b), Lowers) THEN -1 ELSE 1

\* the comparator of [...filtered].sort((a, b) => ...)
sortCompare(a, b, srt) ==
    IF srt = "length" THEN Field(a, "lengthMin", 0) - Field(b, "lengthMin", 0)
    ELSE IF srt = "level"
         THEN localeCompare(Field(a, "level", <<>>), Field(b, "level", <<>>))
    ELSE b._score - a._score

\* A variant of insertSorted for an unstable sort: x goes before the elements
\* it compares equal to.
insertSortedUnstable(sorted, x, srt) ==
    LET k == Cardinality({i \in DOMAIN sorted : sortCompare(sorted[i], x, srt) < 0})
    IN SubSeq(sorted, 1, k) \o <<x>> \o SubSeq(sorted, k + 1, Len(sorted))

\* Array.prototype.sort is stable: x goes after every element that does not
\* compare greater than it.
insertSorted(sorted, x, srt) ==
    LET k == Cardinality({i \in DOMAIN sorted : sortCompare(sorted[i], x, srt) <= 0})
    IN SubSeq(sorted, 1, k) \o <<x>> \o SubSeq(sorted, k + 1, Len(sorted))

RECURSIVE sort(_, _)
sort(seq, srt) ==
    IF seq = <<>> THEN <<>>
    ELSE insertSorted(sort(SubSeq(seq, 1, Len(seq) - 1), srt), seq[Len(seq)], srt)

\* const ranked = useMemo(() => { ... return sorted; }, [...])
computeRanked(qs, lst, flt, srt, cache) ==
    sort(filtered(withScores(qs, lst, cache), flt), srt)

\* const topTwo = ranked.filter(v => v._score > 0).slice(0, 2)
topTwoOf(rk) ==
    LET pos == SelectSeq(rk, LAMBDA v : v._score > 0)
    IN SubSeq(pos, 1, Min2(2, Len(pos)))

topTwo == topTwoOf(ranked)

(***************************************************************************)
(* Inputs: what /catalog.json, the transcript files, the user and the      *)
(* speech recognizer may deliver                                           *)
(***************************************************************************)
\* A studio catalog: two sessions point to a transcript file, one gives its
\* length as durationSec only.
CatalogStudio == <<
    [id |-> "x", title |-> <<"K", "n", "e", "e", " ", "C", "a", "r", "e">>, lengthMin |-> 5,
     level |-> <<"b", "e", "g", "i", "n", "n", "e", "r">>, focuses |-> <<<<"k", "n", "e", "e", "s">>>>,
     contraindications |-> <<<<"a", "c", "u", "t", "e", " ", "k", "n", "e", "e", " ", "p", "a", "i", "n">>>>,
     transcriptTxt |-> "/t/x.txt"],
    [id |-> "y", title |-> <<"B", "a", "c", "k", " ", "R", "e", "s", "e", "t">>, durationSec |-> 890,
     level |-> <<"a", "l", "l">>, focuses |-> <<<<"l", "o", "w", "e", "r", " ", "b", "a", "c", "k">>>>, vibe |-> <<<<"g", "e", "n", "t", "l", "e">>>>,
     transcriptTxt |-> "/t/y.txt"],
    [id |-> "z", title |-> <<"P", "o", "w", "e", "r", " ", "F", "l", "o", "w">>, lengthMin |-> 10,
     level |-> <<"a", "d", "v", "a", "n", "c", "e", "d">>, focuses |-> <<<<"h", "i", "p", "s">>>>,
     intents |-> <<<<"e", "n", "e", "r", "g", "y">>>>, equipment |-> <<<<"M", "a", "t">>>>] >>

\* The two-item catalog of the end-to-end scenario.
CatalogPair == <<
    [id |-> "a", focuses |-> <<<<"k", "n", "e", "e", "s">>>>, lengthMin |-> 10,
     contraindications |-> <<<<"a", "c", "u", "t", "e", " ", "k", "n", "e", "e", " ", "p", "a", "i", "n">>>>],
    [id |-> "b", focuses |-> <<<<"b", "a", "c", "k">>>>, lengthMin |-> 10] >>

Catalogs == {CatalogStudio}

\* The text of each transcript file, as served.
TranscriptFile ==
    ("/t/x.txt" :> <<"L", "u", "n", "g", "e", ",", " ", "t", "h", "e", "n", " ", "T", "w", "i", "s", "t", "!">>) @@ ("/t/y.txt" :> <<"E", "a", "s", "e", " ", "y", "o", "u", "r", " ", "B", "A", "C", "K", ".">>)

\* What the user types into the query box.
TypedQueries == {<<>>, <<"e", "n", "e", "r", "g", "y", " ", "b", "a", "c", "k">>, <<"l", "u", "n", "g", "e", " ", "t", "w", "i", "s", "t">>}

\* What the speech recognizer hears.
Utterances == {<<"Q", "u", "i", "c", "k">>}

\* What the user types into the filter box.
TypedFilters == {<<>>, <<"B", "A", "C", "K">>}

SortModes == {"score", "length", "level"}

\* The longest query the voice input may build up.
MaxQueryLen == 11

\* The most history entries kept track of.
MaxHistory == 2

(***************************************************************************)
(* The component: rendering                                                *)
(***************************************************************************)
\* A variant of the dependency array that leaves out transcriptCache.
useMemoDepsNoCache(q, lst, flt, srt, cache) == <<q, lst, flt, srt>>

\* The dependency array of the ranked useMemo
useMemoDeps(q, lst, flt, srt, cache) == <<q, lst, flt, srt, cache>>

\* useMemo: recompute on the first render and whenever a dependency differs
\* from the one of the previous computation.
useMemo(prev, prevDeps, q, lst, flt, srt, cache) ==
    IF prevDeps = <<>> \/ prevDeps[1] # useMemoDeps(q, lst, flt, srt, cache)
    THEN computeRanked(q, lst, flt, srt, cache)
    ELSE prev

\* The render that follows a state update.
render(q, lst, flt, srt, cache) ==
    /\ ranked' = useMemo(ranked, memoDeps, q, lst, flt, srt, cache)
    /\ memoDeps' = <<useMemoDeps(q, lst, flt, srt, cache)>>

(***************************************************************************)
(* The catalog/transcript loader                                           *)
(***************************************************************************)
\* lengthMin: v.lengthMin ?? Math.round((v.durationSec || 0) / 60)
normalize(data) ==
    [i \in 1..Len(data) |->
        IF "lengthMin" \in DOMAIN data[i] THEN data[i]
        ELSE ("lengthMin" :> MathRoundDiv(Field(data[i], "durationSec", 0), 60))
             @@ data[i]]

\* No request at the access middleware, and nothing answered yet.
NoRequest == [auth |-> <<>>, sent |-> <<>>]

Pending == [kind |-> "pending", status |-> 0, body |-> "", challenge |-> ""]

\* The state after construction: first render done, catalog fetch in flight.
Init ==
    /\ query = <<>>
    /\ history = <<>>
    /\ selected = <<>>
    /\ list = <<>>
    /\ listFilter = <<>>
    /\ listSort = "score"
    /\ transcriptCache = <<>>
    /\ VIDEO_DATA = <<>>
    /\ ranked = computeRanked(<<>>, <<>>, <<>>, "score", <<>>)
    /\ memoDeps = <<useMemoDeps(<<>>, <<>>, <<>>, "score", <<>>)>>
    /\ loader = [pc |-> "catalog", norm |-> <<>>, cache |-> <<>>,
                 pending |-> {}, succeeded |-> {}]
    /\ request = NoRequest
    /\ response = Pending

\* fetch("/catalog.json") answers ok with data: VIDEO_DATA = norm,
\* setList(norm), and one transcript fetch starts per item with a
\* transcriptTxt; with none to fetch, setTranscriptCache({}) follows at once.
catalogLoaded(data) ==
    /\ loader.pc = "catalog"
    /\ LET norm == normalize(data)
           pending == {i \in 1..Len(norm) : "transcriptTxt" \in DOMAIN norm[i]}
       IN /\ VIDEO_DATA' = norm
          /\ list' = norm
          /\ loader' = [pc |-> IF pending = {} THEN "done" ELSE "transcripts",
                        norm |-> norm, cache |-> <<>>, pending |-> pending,
                        succeeded |-> {}]
          /\ transcriptCache' = IF pending = {} THEN <<>> ELSE transcriptCache
          /\ render(query, norm, listFilter, listSort, transcriptCache')
    /\ UNCHANGED <<request, response,
                   query, history, selected, listFilter, listSort>>

\* The catalog fetch answers not ok (nothing happens) or throws (console.warn).
catalogUnavailable(outcome) ==
    /\ loader.pc = "catalog"
    /\ loader' = [loader EXCEPT !.pc = IF outcome = "throw" THEN "failed" ELSE "done"]
    /\ UNCHANGED <<request, response,
                   query, history, selected, list, listFilter, listSort,
                   transcriptCache, VIDEO_DATA, ranked, memoDeps>>

\* A variant of transcriptSettled without the inner try/catch: a fetch that
\* throws rejects Promise.all, the outer catch logs it and
\* setTranscriptCache never runs.
transcriptSettledAbort(i, outcome) ==
    /\ loader.pc = "transcripts"
    /\ i \in loader.pending
    /\ LET v == loader.norm[i]
           cache == IF outcome = "ok"
                    THEN (v.id :> toLowerCase(TranscriptFile[v.transcriptTxt]))
                         @@ loader.cache
                    ELSE loader.cache
           pending == loader.pending \ {i}
           done == pending = {} /\ outcome # "throw"
       IN /\ loader' = [loader EXCEPT
                          !.cache = cache,
                          !.pending = pending,
                          !.succeeded = IF outcome = "ok" THEN @ \cup {i} ELSE @,
                          !.pc = IF outcome = "throw" THEN "failed"
                                 ELSE IF pending = {} THEN "done" ELSE @]
          /\ transcriptCache' = IF done THEN cache ELSE transcriptCache
          /\ render(query, list, listFilter, listSort, transcriptCache')
    /\ UNCHANGED <<request, response,
                   query, history, selected, list, listFilter, listSort,
                   VIDEO_DATA>>

\* One transcript fetch settles: cache[v.id] = text.toLowerCase() when it is
\* ok, nothing when it is not ok or throws (try/catch). When the last one has
\* settled Promise.all resolves and setTranscriptCache(cache) runs.
transcriptSettled(i, outcome) ==
    /\ loader.pc = "transcripts"
    /\ i \in loader.pending
    /\ LET v == loader.norm[i]
           cache == IF outcome = "ok"
                    THEN (v.id :> toLowerCase(TranscriptFile[v.transcriptTxt]))
                         @@ loader.cache
                    ELSE loader.cache
           pending == loader.pending \ {i}
       IN /\ loader' = [loader EXCEPT
                          !.cache = cache,
                          !.pending = pending,
                          !.succeeded = IF outcome = "ok" THEN @ \cup {i} ELSE @,
                          !.pc = IF pending = {} THEN "done" ELSE @]
          /\ transcriptCache' = IF pending = {} THEN cache ELSE transcriptCache
          /\ render(query, list, listFilter, listSort, transcriptCache')
    /\ UNCHANGED <<request, response,
                   query, history, selected, list, listFilter, listSort,
                   VIDEO_DATA>>

(***************************************************************************)
(* The component: event handlers                                           *)
(***************************************************************************)
\* textarea onChange: setQuery(e.target.value)
onChangeQuery(value) ==
    /\ query' = value
    /\ render(value, list, listFilter, listSort, transcriptCache)
    /\ UNCHANGED <<request, response,
                   history, selected, list, listFilter, listSort,
                   transcriptCache, VIDEO_DATA, loader>>

\* r.onresult: setQuery((prev) => (prev ? prev + " " : "") + transcript)
\* (the listening flag, which only styles the voice button, is not modelled)
onresult(transcript) ==
    /\ LET value == (IF query # <<>> THEN query \o <<" ">> ELSE <<>>) \o transcript
       IN /\ Len(value) <= MaxQueryLen
          /\ query' = value
          /\ render(value, list, listFilter, listSort, transcriptCache)
    /\ UNCHANGED <<request, response,
                   history, selected, list, listFilter, listSort,
                   transcriptCache, VIDEO_DATA, loader>>

\* filter input onChange: setListFilter(e.target.value); the catalog panel is
\* rendered only when (selected || query.trim())
onChangeFilter(value) ==
    /\ selected # <<>> \/ trim(query) # <<>>
    /\ listFilter' = value
    /\ render(query, list, value, listSort, transcriptCache)
    /\ UNCHANGED <<request, response,
                   query, history, selected, list, listSort,
                   transcriptCache, VIDEO_DATA, loader>>

\* sort select onChange: setListSort(e.target.value)
onChangeSort(value) ==
    /\ selected # <<>> \/ trim(query) # <<>>
    /\ listSort' = value
    /\ render(query, list, listFilter, value, transcriptCache)
    /\ UNCHANGED <<request, response,
                   query, history, selected, list, listFilter,
                   transcriptCache, VIDEO_DATA, loader>>

\* function recommend()
recommend ==
    IF ranked = <<>>
    THEN UNCHANGED vars
    ELSE LET best == ranked[1]
         IN /\ Len(history) + 2 <= MaxHistory
            /\ selected' = <<best.id>>
            /\ history' = history \o
                 << [role |-> "user",
                     text |-> IF query # <<>> THEN query ELSE Lit.no_input],
                    [role |-> "system",
                     text |-> Lit.Recommended \o Field(best, "title", Lit.undefined)] >>
            /\ query' = <<>>
            /\ render(<<>>, list, listFilter, listSort, transcriptCache)
            /\ UNCHANGED <<request, response, list, listFilter, listSort,
                           transcriptCache, VIDEO_DATA, loader>>

\* "Find my yoga" button: onClick={recommend}, disabled={!query.trim()}
onClickRecommend ==
    /\ trim(query) # <<>>
    /\ recommend

\* textarea onKeyDown: e.key === "Enter" && !e.shiftKey && recommend()
onKeyDownEnter == recommend

\* RecommendationCard onSelect: setSelected(topTwo[k]); the cards are rendered
\* only when query.trim() && topTwo.length > 0
onSelectCard(k) ==
    /\ trim(query) # <<>>
    /\ k \in DOMAIN topTwo
    /\ selected' = <<topTwo[k].id>>
    /\ UNCHANGED <<request, response,
                   query, history, list, listFilter, listSort,
                   transcriptCache, VIDEO_DATA, ranked, memoDeps, loader>>

\* catalog entry onClick: setSelected(v), v of ranked
onClickEntry(k) ==
    /\ selected # <<>> \/ trim(query) # <<>>
    /\ k \in DOMAIN ranked
    /\ selected' = <<ranked[k].id>>
    /\ UNCHANGED <<request, response,
                   query, history, list, listFilter, listSort,
                   transcriptCache, VIDEO_DATA, ranked, memoDeps, loader>>

Next ==
    \/ \E data \in Catalogs : catalogLoaded(data)
    \/ \E outcome \in {"notok", "throw"} : catalogUnavailable(outcome)
    \/ \E i \in loader.pending, outcome \in {"ok", "notok", "throw"} :
          transcriptSettled(i, outcome)
    \/ \E value \in TypedQueries : onChangeQuery(value)
    \/ \E transcript \in Utterances : onresult(transcript)
    \/ \E value \in TypedFilters : onChangeFilter(value)
    \/ \E value \in SortModes : onChangeSort(value)
    \/ onClickRecommend
    \/ onKeyDownEnter
    \/ \E k \in 1..2 : onSelectCard(k)
    \/ \E k \in DOMAIN ranked : onClickEntry(k)

Spec == Init /\ [][Next]_vars

(***************************************************************************)
(* Scoring and ranking on their own: the inputs are drawn from bounded     *)
(* sets and the component's first render computes ranked from them         *)
(***************************************************************************)
\* The phrases queries are made of: category words, near misses of them
\* (plural, capital letter, punctuation), durations, and words of the tags
\* and transcripts below.
ScorePhrases == {
    <<"k", "n", "e", "e", " ", "p", "a", "i", "n">>,
    <<"1", "0", " ", "m", "i", "n">>,
    <<"f", "l", "i", "g", "h", "t", " ", "b", "a", "c", "k", " ", "p", "a", "i", "n">>,
    <<"t", "r", "i", "p">>,
    <<"b", "a", "c", "k">>,
    <<"d", "e", "s", "k", " ", "w", "o", "r", "k">>,
    <<"r", "e", "l", "a", "x">>,
    <<"s", "t", "i", "f", "f", " ", "q", "u", "i", "c", "k">>,
    <<"1", "5", " ", "m", "i", "n">>,
    <<"1", "2", "0", " ", "m", "i", "n">>,
    <<"!", "!", "!">>,
    <<"K", "n", "e", "e", "s", ",", " ", "f", "l", "i", "g", "h", "t", "s">>,
    <<"l", "u", "n", "g", "e", " ", "t", "w", "i", "s", "t">>,
    <<" ">>,
    <<"p", "l", "e", "a", "s", "e">>,
    <<"s", "l", "o", "w", "l", "y", " ", "b", "e", "n", "d", " ", "o", "n", "e", " ", "k", "n", "e", "e", " ", "a", "n", "d", " ", "t", "h", "e", "n", " ", "r", "e", "l", "a", "x">> }

\* The most phrases in a query.
MaxPhrases == 2

\* Every query of at most MaxPhrases phrases, joined by spaces.
ScoreQueries ==
    {join(ps) : ps \in UNION {[1..k -> ScorePhrases] : k \in 0..MaxPhrases}}

\* Two sessions alike but for id and the "acute knee pain" contraindication,
\* and a third whose contraindication differs from it by a capital letter.
CatalogTwins == <<
    [id |-> "k1", title |-> <<"K", "n", "e", "e", " ", "C", "a", "r", "e">>, lengthMin |-> 15,
     level |-> <<"b", "e", "g", "i", "n", "n", "e", "r">>, focuses |-> <<<<"k", "n", "e", "e", "s">>, <<"h", "i", "p", "s">>>>,
     intents |-> <<<<"r", "e", "l", "a", "x">>>>, vibe |-> <<<<"g", "e", "n", "t", "l", "e">>>>,
     contraindications |-> <<<<"p", "r", "e", "g", "n", "a", "n", "c", "y">>, <<"a", "c", "u", "t", "e", " ", "k", "n", "e", "e", " ", "p", "a", "i", "n">>>>],
    [id |-> "k2", title |-> <<"K", "n", "e", "e", " ", "C", "a", "r", "e">>, lengthMin |-> 15,
     level |-> <<"b", "e", "g", "i", "n", "n", "e", "r">>, focuses |-> <<<<"k", "n", "e", "e", "s">>, <<"h", "i", "p", "s">>>>,
     intents |-> <<<<"r", "e", "l", "a", "x">>>>, vibe |-> <<<<"g", "e", "n", "t", "l", "e">>>>,
     contraindications |-> <<<<"p", "r", "e", "g", "n", "a", "n", "c", "y">>>>],
    [id |-> "k3", title |-> <<"K", "n", "e", "e", " ", "C", "a", "r", "e">>, lengthMin |-> 15,
     level |-> <<"b", "e", "g", "i", "n", "n", "e", "r">>, focuses |-> <<<<"k", "n", "e", "e", "s">>, <<"h", "i", "p", "s">>>>,
     intents |-> <<<<"r", "e", "l", "a", "x">>>>, vibe |-> <<<<"g", "e", "n", "t", "l", "e">>>>,
     contraindications |-> <<<<"p", "r", "e", "g", "n", "a", "n", "c", "y">>, <<"A", "c", "u", "t", "e", " ", "k", "n", "e", "e", " ", "p", "a", "i", "n">>>>] >>

\* Sessions of several lengths, one without lengthMin, one without tags.
CatalogLengths == <<
    [id |-> "d15", title |-> <<"F", "l", "o", "w">>, lengthMin |-> 15],
    [id |-> "d20", title |-> <<"B", "a", "c", "k", " ", "T", "r", "i", "p">>, lengthMin |-> 20,
     focuses |-> <<<<"l", "o", "w", "e", "r", " ", "b", "a", "c", "k">>, <<"b", "a", "c", "k">>>>, intents |-> <<<<"d", "e", "s", "k", " ", "r", "e", "l", "i", "e", "f">>>>],
    [id |-> "d8", title |-> <<"R", "e", "s", "e", "t">>, lengthMin |-> 8, vibe |-> <<<<"q", "u", "i", "c", "k">>>>],
    [id |-> "d0", title |-> <<"U", "n", "t", "i", "m", "e", "d">>] >>

\* Sessions with a transcript pointer: one whose transcript was cached, one
\* whose fetch failed (no cache entry), one whose transcript is empty, and one
\* whose transcript holds query words only inside longer words.
CatalogTalk == <<
    [id |-> "t1", title |-> <<"G", "u", "i", "d", "e", "d">>, lengthMin |-> 30, transcriptTxt |-> "/t/1.txt"],
    [id |-> "t2", title |-> <<"G", "u", "i", "d", "e", "d">>, lengthMin |-> 30, transcriptTxt |-> "/t/2.txt"],
    [id |-> "t3", title |-> <<"G", "u", "i", "d", "e", "d">>, lengthMin |-> 30, transcriptTxt |-> "/t/3.txt"],
    [id |-> "t4", title |-> <<"G", "u", "i", "d", "e", "d">>, lengthMin |-> 30, transcriptTxt |-> "/t/4.txt"] >>

\* "slowly bend one knee, and then relax. lunge, twist, lunge."
TalkFull ==
    <<"s", "l", "o", "w", "l", "y", " ", "b", "e", "n", "d", " ", "o", "n", "e", " ", "k", "n", "e", "e", ",", " ", "a", "n", "d", " ", "t", "h", "e", "n", " ", "r", "e", "l", "a", "x", ".", " ", "l", "u", "n", "g", "e", ",", " ", "t", "w", "i", "s", "t", ",", " ", "l", "u", "n", "g", "e", ".">>

\* "flights backward, kneeling"
TalkInside ==
    <<"f", "l", "i", "g", "h", "t", "s", " ", "b", "a", "c", "k", "w", "a", "r", "d", ",", " ", "k", "n", "e", "e", "l", "i", "n", "g">>

\* One session three times over, its tag lists in three different orders; one
\* focus tag is listed twice.
CatalogShuffled == <<
    [id |-> "p1", title |-> <<"U", "n", "w", "i", "n", "d">>, lengthMin |-> 12,
     focuses |-> <<<<"l", "o", "w", "e", "r", " ", "b", "a", "c", "k">>, <<"k", "n", "e", "e", "s">>, <<"b", "a", "c", "k">>>>,
     intents |-> <<<<"d", "e", "s", "k", " ", "r", "e", "l", "i", "e", "f">>, <<"r", "e", "l", "a", "x">>>>,
     vibe |-> <<<<"g", "e", "n", "t", "l", "e">>, <<"q", "u", "i", "c", "k">>>>,
     contraindications |-> <<<<"p", "r", "e", "g", "n", "a", "n", "c", "y">>, <<"a", "c", "u", "t", "e", " ", "k", "n", "e", "e", " ", "p", "a", "i", "n">>>>],
    [id |-> "p2", title |-> <<"U", "n", "w", "i", "n", "d">>, lengthMin |-> 12,
     focuses |-> <<<<"b", "a", "c", "k">>, <<"k", "n", "e", "e", "s">>, <<"l", "o", "w", "e", "r", " ", "b", "a", "c", "k">>>>,
     intents |-> <<<<"r", "e", "l", "a", "x">>, <<"d", "e", "s", "k", " ", "r", "e", "l", "i", "e", "f">>>>,
     vibe |-> <<<<"q", "u", "i", "c", "k">>, <<"g", "e", "n", "t", "l", "e">>>>,
     contraindications |-> <<<<"a", "c", "u", "t", "e", " ", "k", "n", "e", "e", " ", "p", "a", "i", "n">>, <<"p", "r", "e", "g", "n", "a", "n", "c", "y">>>>],
    [id |-> "p3", title |-> <<"U", "n", "w", "i", "n", "d">>, lengthMin |-> 12,
     focuses |-> <<<<"k", "n", "e", "e", "s">>, <<"l", "o", "w", "e", "r", " ", "b", "a", "c", "k">>, <<"b", "a", "c", "k">>>>,
     intents |-> <<<<"d", "e", "s", "k", " ", "r", "e", "l", "i", "e", "f">>, <<"r", "e", "l", "a", "x">>>>,
     vibe |-> <<<<"q", "u", "i", "c", "k">>, <<"g", "e", "n", "t", "l", "e">>>>,
     contraindications |-> <<<<"a", "c", "u", "t", "e", " ", "k", "n", "e", "e", " ", "p", "a", "i", "n">>, <<"p", "r", "e", "g", "n", "a", "n", "c", "y">>>>] >>

\* "relax your back; knees soft"
TalkShuffled ==
    <<"r", "e", "l", "a", "x", " ", "y", "o", "u", "r", " ", "b", "a", "c", "k", ";", " ", "k", "n", "e", "e", "s", " ", "s", "o", "f", "t">>

\* A catalog list with the transcript cache that goes with it.
ScoreCases == {
    [list |-> CatalogPair, cache |-> <<>>],
    [list |-> CatalogTwins,
     cache |-> ("k1" :> <<"b", "e", "n", "d", " ", "t", "h", "e", " ", "k", "n", "e", "e", ",", " ", "r", "e", "l", "a", "x", "!", "!", "!">>) @@ ("k2" :> <<"b", "e", "n", "d", " ", "t", "h", "e", " ", "k", "n", "e", "e", ",", " ", "r", "e", "l", "a", "x", "!", "!", "!">>)
               @@ ("k3" :> <<"b", "e", "n", "d", " ", "t", "h", "e", " ", "k", "n", "e", "e", ",", " ", "r", "e", "l", "a", "x", "!", "!", "!">>)],
    [list |-> CatalogTalk,
     cache |-> ("t1" :> TalkFull) @@ ("t3" :> <<>>) @@ ("t4" :> TalkInside)],
    [list |-> CatalogShuffled,
     cache |-> ("p1" :> TalkShuffled) @@ ("p2" :> TalkShuffled)
               @@ ("p3" :> TalkShuffled)],
    [list |-> CatalogLengths,
     cache |-> ("d20" :> <<"l", "u", "n", "g", "e", " ", "a", "n", "d", " ", "t", "w", "i", "s", "t", " ", "1", "0", " ", "m", "i", "n">>) @@ ("d8" :> <<>>)] }

InitScore ==
    /\ query \in ScoreQueries
    /\ \E c \in ScoreCases : list = c.list /\ transcriptCache = c.cache
    /\ VIDEO_DATA = list
    /\ history = <<>>
    /\ selected = <<>>
    /\ listFilter = <<>>
    /\ listSort = "score"
    /\ ranked = <<>>
    /\ memoDeps = <<>>
    /\ loader = [pc |-> "done", norm |-> list, cache |-> transcriptCache,
                 pending |-> {}, succeeded |-> {}]
    /\ request = NoRequest
    /\ response = Pending

\* The component's first render: useMemo has no previous dependencies.
mount ==
    /\ memoDeps = <<>>
    /\ render(query, list, listFilter, listSort, transcriptCache)
    /\ UNCHANGED <<request, response,
                   query, history, selected, list, listFilter, listSort,
                   transcriptCache, VIDEO_DATA, loader>>

SpecScore == InitScore /\ [][mount]_vars

(***************************************************************************)
(* The access middleware: functions/_middleware.js                         *)
(***************************************************************************)
\* The ASCII characters of codes 32 (the space) to 95, in code order; the
\* lower-case letters start at code 97.
Ascii ==
    << " ", "!", "\"", "#", "$", "%", "&", "'", "(", ")", "*", "+",
       ",", "-", ".", "/", "0", "1", "2", "3", "4", "5", "6", "7",
       "8", "9", ":", ";", "<", "=", ">", "?", "@", "A", "B", "C",
       "D", "E", "F", "G", "H", "I", "J", "K", "L", "M", "N", "O",
       "P", "Q", "R", "S", "T", "U", "V", "W", "X", "Y", "Z", "[",
       "\\", "]", "^", "_" >>

\* String.prototype.charCodeAt on those characters.
charCode(c) ==
    IF InSeq(c, Lowers) THEN IndexOf(c, Lowers) + 96 ELSE IndexOf(c, Ascii) + 31

\* The base64 alphabet; the position of a character, less one, is its value.
Base64Alphabet ==
    << "A", "B", "C", "D", "E", "F", "G", "H", "I", "J", "K", "L",
       "M", "N", "O", "P", "Q", "R", "S", "T", "U", "V", "W", "X",
       "Y", "Z", "a", "b", "c", "d", "e", "f", "g", "h", "i", "j",
       "k", "l", "m", "n", "o", "p", "q", "r", "s", "t", "u", "v",
       "w", "x", "y", "z", "0", "1", "2", "3", "4", "5", "6", "7",
       "8", "9", "+", "/" >>

\* String.prototype.startsWith
startsWith(s, prefix) ==
    Len(s) >= Len(prefix) /\ SubSeq(s, 1, Len(prefix)) = prefix

\* String.prototype.split with a one-character separator: empty pieces stay.
RECURSIVE splitOn(_, _)
splitOn(s, sep) ==
    LET at == {i \in DOMAIN s : s[i] = sep}
    IN IF at = {} THEN <<s>>
       ELSE <<SubSeq(s, 1, SetMin(at) - 1)>>
            \o splitOn(SubSeq(s, SetMin(at) + 1, Len(s)), sep)

\* Array.prototype.join with a one-character separator.
RECURSIVE joinWith(_, _)
joinWith(parts, sep) ==
    IF parts = <<>> THEN <<>>
    ELSE IF Len(parts) = 1 THEN parts[1]
    ELSE parts[1] \o <<sep>> \o joinWith(Tail(parts), sep)

\* The bytes a run of base64 values stands for: three per four values; a
\* last group of two values gives one byte, of three values two bytes, the
\* bits left over being dropped.
RECURSIVE base64Bytes(_)
base64Bytes(vs) ==
    IF Len(vs) >= 4
    THEN LET n == ((vs[1] * 64 + vs[2]) * 64 + vs[3]) * 64 + vs[4]
         IN <<n \div 65536, (n \div 256) % 256, n % 256>>
            \o base64Bytes(SubSeq(vs, 5, Len(vs)))
    ELSE IF Len(vs) = 3
    THEN LET n == ((vs[1] * 64 + vs[2]) * 64 + vs[3]) \div 4
         IN <<n \div 256, n % 256>>
    ELSE IF Len(vs) = 2
    THEN <<(vs[1] * 64 + vs[2]) \div 16>>
    ELSE <<>>

\* atob, step by step: ASCII whitespace is removed; one or two "=" at the
\* end go when the length is a multiple of 4; a length of 1 modulo 4 or a
\* character outside the alphabet throws InvalidCharacterError.
atobData(data) ==
    LET bare == SelectSeq(data, LAMBDA c : c \notin Whitespace)
        n == Len(bare)
        pad == IF n % 4 = 0 /\ n > 0 /\ bare[n] = "="
               THEN (IF bare[n - 1] = "=" THEN 2 ELSE 1)
               ELSE 0
    IN SubSeq(bare, 1, n - pad)

atobThrows(data) ==
    \/ Len(atobData(data)) % 4 = 1
    \/ \E i \in DOMAIN atobData(data) : ~InSeq(atobData(data)[i], Base64Alphabet)

\* The decoded string, as its character codes (0..255).
atob(data) ==
    base64Bytes([i \in DOMAIN atobData(data) |->
                    IndexOf(atobData(data)[i], Base64Alphabet) - 1])

\* btoa, which the browser applies to "user:password": three characters
\* become four base64 characters, the last group padded with "=".
RECURSIVE btoa(_)
btoa(codes) ==
    LET b == Base64Alphabet
        c1 == codes[1]
        c2 == IF Len(codes) >= 2 THEN codes[2] ELSE 0
        c3 == IF Len(codes) >= 3 THEN codes[3] ELSE 0
        v1 == c1 \div 4
        v2 == ((c1 % 4) * 16) + (c2 \div 16)
        v3 == ((c2 % 16) * 4) + (c3 \div 64)
        v4 == c3 % 64
    IN IF codes = <<>> THEN <<>>
       ELSE IF Len(codes) = 1 THEN <<b[v1 + 1], b[v2 + 1], "=", "=">>
       ELSE IF Len(codes) = 2 THEN <<b[v1 + 1], b[v2 + 1], b[v3 + 1], "=">>
       ELSE <<b[v1 + 1], b[v2 + 1], b[v3 + 1], b[v4 + 1]>>
            \o btoa(SubSeq(codes, 4, Len(codes)))

\* The character codes of a text.
codesOf(s) == [i \in DOMAIN s |-> charCode(s[i])]

\* const EXPECTED_PASSWORD = "kanda"
EXPECTED_PASSWORD == <<"k", "a", "n", "d", "a">>

\* new Response("Authentication required", {status: 401, headers: ...})
AuthenticationRequired ==
    [kind |-> "response", status |-> 401, body |-> "Authentication required",
     challenge |-> "Basic realm=\"YogaTools.ai\""]

\* context.next(): the request goes on to the site.
Forwarded == [kind |-> "next", status |-> 0, body |-> "", challenge |-> ""]

\* onRequest rejects: atob threw and nothing catches it.
Rejected == [kind |-> "throw", status |-> 0, body |-> "", challenge |-> ""]

\* The "user:password" texts a client encodes.
SentCredentials == {
    <<"u", "s", "e", "r", ":", "k", "a", "n", "d", "a">>, <<"u", ":", "k", "a", "n", "d", "a">>, <<"u", "s", ":", "k", "a", "n", "d", "a">>, <<":", "k", "a", "n", "d", "a">>, <<"k", "a", "n", "d", "a">>,
    <<"u", "s", "e", "r", ":", "k", "a", "n", "d">>, <<"u", "s", "e", "r", ":", "k", "a", "n", "d", "a", "a">>, <<"u", "s", "e", "r", ":", "K", "a", "n", "d", "a">>, <<"a", ":", "b", ":", "k", "a", "n", "d", "a">>, <<"k", "a", "n", "d", "a", ":", "x">>,
    <<"u", "s", "e", "r", ":">>, <<"u", "s", "e", "r", ":", "k", "a", "n", "d", "a", ":">>, <<"k", "a", "n", "d", "a", ":", "k", "a", "n", "d", "a">>, <<>> }

\* What stands before the credentials in the header.
SchemePrefixes == {
    <<"B", "a", "s", "i", "c", " ">>, <<"B", "a", "s", "i", "c", " ", " ">>, <<"B", "a", "s", "i", "c">>, <<"b", "a", "s", "i", "c", " ">>, <<"B", "e", "a", "r", "e", "r", " ">> }

\* Credentials no client encoding produces: characters outside the
\* alphabet, a length of 1 modulo 4, misplaced padding.
Undecodable == {
    <<"!", "!", "!">>, <<"d", "X", "N", "l", "c">>, <<"d", "X", "N", "l", "c", "j", "p", "r", "Y", "W", "5", "k", "Y", "Q", "=">>, <<"d", "X", "N", "l", "c", "j", "p", "r", "Y", "W", "5", "k", "Y", "Q", "=", "=", "=">>,
    <<"=">>, <<"d", "X", "N", "l", "_", "j", "p", "r", "Y", "W", "5", "k", "Y", "Q", "=", "=">> }

\* Encoded credentials without their padding, which atob accepts:
\* "user:kanda" and "u:kanda".
Unpadded == {
    [token |-> <<"d", "X", "N", "l", "c", "j", "p", "r", "Y", "W", "5", "k", "Y", "Q">>, sent |-> <<"u", "s", "e", "r", ":", "k", "a", "n", "d", "a">>],
    [token |-> <<"d", "T", "p", "r", "Y", "W", "5", "k", "Y", "Q">>, sent |-> <<"u", ":", "k", "a", "n", "d", "a">>] }

\* The requests: no Authorization header, an empty one, and every prefix
\* with every credentials token, some with a further word after it. sent is
\* the text the token encodes, <<>> when it encodes none.
Requests ==
    {NoRequest, [auth |-> <<<<>>>>, sent |-> <<>>]}
    \cup {[auth |-> <<p \o btoa(codesOf(c))>>, sent |-> <<c>>] :
              p \in SchemePrefixes, c \in SentCredentials}
    \cup {[auth |-> <<p \o t>>, sent |-> <<>>] :
              p \in SchemePrefixes, t \in Undecodable}
    \cup {[auth |-> <<p \o u.token>>, sent |-> <<u.sent>>] :
              p \in SchemePrefixes, u \in Unpadded}
    \cup {[auth |-> <<<<"B", "a", "s", "i", "c", " ">> \o btoa(codesOf(c)) \o <<" ", "x">>>>, sent |-> <<c>>] :
              c \in SentCredentials}

\* export async function onRequest(context)
onRequest ==
    /\ response = Pending
    /\ LET auth == IF request.auth = <<>> THEN <<>> ELSE request.auth[1]
       IN IF auth # <<>> /\ startsWith(auth, <<"B", "a", "s", "i", "c", " ">>)
          THEN LET parts == splitOn(auth, " ")
                   data == IF Len(parts) >= 2 THEN parts[2] ELSE <<>>
               IN IF atobThrows(data) THEN response' = Rejected
                  ELSE LET decoded == atob(data)
                           suppliedPassword ==
                               joinWith(Tail(splitOn(decoded, charCode(":"))),
                                        charCode(":"))
                       IN IF suppliedPassword = codesOf(EXPECTED_PASSWORD)
                          THEN response' = Forwarded
                          ELSE response' = AuthenticationRequired
          ELSE response' = AuthenticationRequired
    /\ UNCHANGED <<query, history, selected, list, listFilter, listSort,
                   transcriptCache, VIDEO_DATA, ranked, memoDeps, loader,
                   request>>

\* A request arrives at the middleware; the page itself is in its state
\* after construction.
InitAuth ==
    /\ request \in Requests
    /\ response = Pending
    /\ query = <<>>
    /\ history = <<>>
    /\ selected = <<>>
    /\ list = <<>>
    /\ listFilter = <<>>
    /\ listSort = "score"
    /\ transcriptCache = <<>>
    /\ VIDEO_DATA = <<>>
    /\ ranked = <<>>
    /\ memoDeps = <<>>
    /\ loader = [pc |-> "catalog", norm |-> <<>>, cache |-> <<>>,
                 pending |-> {}, succeeded |-> {}]

SpecAuth == InitAuth /\ [][onRequest]_vars

(***************************************************************************)
(* Properties                                                              *)
(***************************************************************************)
\* The first render has happened: ranked holds a computed ranking.
Rendered == memoDeps # <<>>

Ids(rk) == [i \in DOMAIN rk |-> rk[i].id]

Scores(rk) == [i \in DOMAIN rk |-> rk[i]._score]

\* The token set of the query as the ranking passes it to keywordScore.
QueryTokens == Range(tokenize(trim(query)))

\* The end-to-end scenario: catalog [a, b], no transcripts, empty filter,
\* sort mode "score", query "knee pain 10 min", ranking computed.
C1_Scenario ==
    /\ Rendered
    /\ list = CatalogPair
    /\ transcriptCache = <<>>
    /\ listFilter = <<>>
    /\ listSort = "score"
    /\ query = <<"k", "n", "e", "e", " ", "p", "a", "i", "n", " ", "1", "0", " ", "m", "i", "n">>

\* C1 as stated: in the end-to-end scenario item a scores 5, item b scores 4
\* and the ranked order is [a, b].
C1_AsStated ==
    C1_Scenario => Ids(ranked) = <<"a", "b">> /\ Scores(ranked) = <<5, 4>>

\* C1 as amended: in the end-to-end scenario item a scores 2 (the query token
\* "knee" is not the focus token "knees": 0 - 2 + 4), item b scores 4 and the
\* ranked order is [b, a].
C1_EndToEnd ==
    C1_Scenario => Ids(ranked) = <<"b", "a">> /\ Scores(ranked) = <<4, 2>>

\* C2: whenever the recommendation cards are shown, the primary one has the
\* highest score among the ranked items, the secondary one (when there is
\* one) the next-highest, and both scores are positive.
C2_TopScoring ==
    (trim(query) # <<>> /\ topTwo # <<>>) =>
        LET pos == {i \in DOMAIN ranked : ranked[i]._score > 0}
            p1 == SetMin(pos)
        IN /\ topTwo[1] = ranked[p1]
           /\ topTwo[1]._score > 0
           /\ \A i \in DOMAIN ranked : ranked[i]._score <= topTwo[1]._score
           /\ Len(topTwo) = 2 =>
                 /\ topTwo[2]._score > 0
                 /\ \A i \in DOMAIN ranked \ {p1} :
                       ranked[i]._score <= topTwo[2]._score

NoPositiveScore == \A i \in DOMAIN ranked : ranked[i]._score <= 0

\* C3: when no ranked item has a positive score the top-two view is empty,
\* and a recommend step (button click or Enter) changes neither the selected
\* item nor the history.
C3_NothingSurfaced ==
    /\ [](NoPositiveScore => topTwo = <<>>)
    /\ [][(NoPositiveScore /\ (onClickRecommend \/ onKeyDownEnter))
            => (selected' = selected /\ history' = history)]_vars

\* The place of the item with this id in the catalog list.
ListIndex(id) == CHOOSE i \in DOMAIN list : list[i].id = id

\* C4: with sort mode "score" the ranking holds exactly the filter-passing
\* items, in descending order of score, and items of equal score keep the
\* relative order they have in the catalog.
C4_StableByScore ==
    listSort = "score" =>
        /\ Range(ranked) = Range(filtered(withScores(query, list, transcriptCache),
                                          listFilter))
        /\ \A i, j \in DOMAIN ranked :
              i < j =>
                /\ ranked[i]._score >= ranked[j]._score
                /\ ranked[i]._score = ranked[j]._score
                      => ListIndex(ranked[i].id) < ListIndex(ranked[j].id)

\* A ranking by score with a tie below a strictly higher score.
C4_Witness ==
    /\ listSort = "score"
    /\ Len(ranked) = 3
    /\ ranked[1]._score > ranked[2]._score
    /\ ranked[2]._score = ranked[3]._score

\* No letter and no digit: nothing the tokenizer keeps.
NoAlnum(s) ==
    \A i \in DOMAIN s : s[i] \notin LowerSet \cup Range(Uppers) \cup DigitSet

\* C5: when the trimmed query is empty or the query tokenizes to the empty
\* token set (it holds no letter and no digit), every item scores 0, whatever
\* its tags, length and transcript.
C5_EmptyQueryScoresZero ==
    (Rendered /\ (trim(query) = <<>> \/ tokenize(query) = <<>> \/ NoAlnum(query)))
        => \A i \in DOMAIN ranked : ranked[i]._score = 0

\* A non-blank query without tokens, ranked against items with transcripts.
C5_Witness ==
    /\ Rendered
    /\ trim(query) # <<>>
    /\ NoAlnum(query)
    /\ \E i \in DOMAIN ranked :
          /\ ranked[i].id \in DOMAIN transcriptCache
          /\ "focuses" \in DOMAIN ranked[i]

\* C6: the ranking presented is the ranking of the current query, catalog
\* list, filter text, sort mode and transcript cache.
C6_RankingIsCurrent ==
    ranked = computeRanked(query, list, listFilter, listSort, transcriptCache)

\* A ranking that reflects a loaded transcript cache, a filter and a sort mode.
C6_Witness ==
    /\ loader.pc = "done"
    /\ transcriptCache # <<>>
    /\ listFilter # <<>>
    /\ listSort = "length"
    /\ history # <<>>
    /\ \E i \in DOMAIN ranked : ranked[i]._score > 0

\* Every transcript fetch of the loaded catalog has settled.
AllSettled == loader.norm # <<>> /\ loader.pending = {}

\* C7: once all transcript fetches have settled, the transcript cache holds
\* the lower-cased text for exactly the items whose fetch succeeded, the
\* catalog list is the full loaded catalog, and an item without a cache entry
\* is scored as with no transcript at all.
C7_IndependentFetches ==
    AllSettled =>
        /\ DOMAIN transcriptCache = {loader.norm[i].id : i \in loader.succeeded}
        /\ \A i \in loader.succeeded :
              transcriptCache[loader.norm[i].id]
                 = toLowerCase(TranscriptFile[loader.norm[i].transcriptTxt])
        /\ list = loader.norm
        /\ \E data \in Catalogs : list = normalize(data) /\ Len(list) = Len(data)
        /\ \A i \in DOMAIN ranked :
              ranked[i].id \notin DOMAIN transcriptCache
                 => \E k \in DOMAIN list :
                       ranked[i] = withScore(query, list[k], <<>>)

\* All fetches settled, one succeeded and one failed, and the query names a
\* word of the transcript that was lost.
C7_Witness ==
    /\ AllSettled
    /\ loader.succeeded = {2}
    /\ DOMAIN transcriptCache = {"y"}
    /\ query = <<"l", "u", "n", "g", "e", " ", "t", "w", "i", "s", "t">>
    /\ Len(ranked) = 3

\* The score of a ranked item less what rule k does not account for: the sum
\* of the contributions of the other rules.
TagPart(v) == tagScore(QueryTokens, v)

CategoryPart == heuristics(QueryTokens)

ContraPart(v) == contraindication(QueryTokens, v)

TimePart(v) == timePreference(trim(query), v)

QuickPart(v) == quickPreference(QueryTokens, v)

TranscriptPart(v) == transcriptBoost(QueryTokens, v, transcriptCache)

\* n digits at position i of s, then optional whitespace, then "min".
DigitsMinAt(s, i, n) ==
    /\ i + n - 1 <= Len(s)
    /\ \A k \in i..(i + n - 1) : IsDigit(s[k])
    /\ \E m \in (i + n)..Len(s) :
          /\ \A k \in (i + n)..(m - 1) : s[k] \in Whitespace
          /\ SubSeq(s, m, m + 2) = <<"m", "i", "n">>

\* The query holds an occurrence of 1-2 digits, optional whitespace, "min".
HasDurationPattern(s) ==
    \E i \in DOMAIN s, n \in {1, 2} : DigitsMinAt(s, i, n)

\* The minute count written in the query: the whole number that ends where
\* the first such occurrence's digits end.
WrittenMinutes(s) ==
    LET e == SetMin({i + n - 1 : <<i, n>> \in
                        {p \in (DOMAIN s) \X {1, 2} : DigitsMinAt(s, p[1], p[2])}})
        b == SetMin({k \in 1..e : \A j \in k..e : IsDigit(s[j])})
    IN parseInt(SubSeq(s, b, e))

\* C8: rule 4 contributes 0 when the query holds no occurrence of 1-2 digits,
\* optional whitespace and "min", and otherwise
\* max(0, 4 - min(4, round(|lengthMin - requested| / 5))), rounding half up,
\* where requested is the minute count written in the query and a missing
\* lengthMin counts as 0.
C8_DurationBonus ==
    (Rendered /\ trim(query) # <<>>) =>
        \A i \in DOMAIN ranked :
            LET v == ranked[i]
                rule4 == v._score - (TagPart(v) + CategoryPart + ContraPart(v)
                                     + QuickPart(v) + TranscriptPart(v))
                len == IF "lengthMin" \in DOMAIN v THEN v.lengthMin ELSE 0
            IN rule4 =
                 IF ~HasDurationPattern(trim(query)) THEN 0
                 ELSE LET diff == Abs(len - WrittenMinutes(trim(query)))
                          rounded == CHOOSE r \in 0..(diff \div 5 + 1) :
                                        10 * r - 5 <= 2 * diff /\ 2 * diff < 10 * r + 5
                      IN Max2(0, 4 - Min2(4, rounded))

\* The contraindications of an item, and its transcript (<<>> for none).
ContraOf(v) == Field(v, "contraindications", <<>>)

TranscriptOf(v) ==
    IF v.id \in DOMAIN transcriptCache THEN transcriptCache[v.id] ELSE <<>>

\* v and w are alike but for their ids and contraindications, and have the
\* same transcript, if any.
AlikeButContra(v, w) ==
    /\ DOMAIN v \ {"contraindications"} = DOMAIN w \ {"contraindications"}
    /\ \A f \in DOMAIN v \ {"id", "contraindications", "_score"} : v[f] = w[f]
    /\ TranscriptOf(v) = TranscriptOf(w)

\* v lists "acute knee pain" among its contraindications and w is v without
\* that entry.
ContraTwins(v, w) ==
    /\ AlikeButContra(v, w)
    /\ InSeq(Lit.acute_knee_pain, ContraOf(v))
    /\ ContraOf(w) = SelectSeq(ContraOf(v), LAMBDA c : c # Lit.acute_knee_pain)

\* The query token set holds a word of the knee category.
KneeQuery == QueryTokens \cap Range(KW.knees) # {}

\* C9: an item that lists exactly "acute knee pain" scores 2 less than its
\* twin without the entry when the query hits the knee category and the same
\* as its twin when it does not; two items alike but for contraindications
\* that are not exactly "acute knee pain" always score the same.
C9_ContraindicationPenalty ==
    Rendered =>
        \A i, j \in DOMAIN ranked :
            /\ ContraTwins(ranked[i], ranked[j]) =>
                  ranked[i]._score
                     = ranked[j]._score - (IF KneeQuery THEN 2 ELSE 0)
            /\ (/\ AlikeButContra(ranked[i], ranked[j])
                /\ ~InSeq(Lit.acute_knee_pain, ContraOf(ranked[i]))
                /\ ~InSeq(Lit.acute_knee_pain, ContraOf(ranked[j])))
                  => ranked[i]._score = ranked[j]._score

\* The query "knee pain please" ranked against the twins.
C9_Witness ==
    /\ Rendered
    /\ query = <<"k", "n", "e", "e", " ", "p", "a", "i", "n", " ", "p", "l", "e", "a", "s", "e">>
    /\ \E i, j \in DOMAIN ranked :
          /\ ContraTwins(ranked[i], ranked[j])
          /\ ranked[i]._score = ranked[j]._score - 2
          /\ \E k \in DOMAIN ranked :
                /\ k # j
                /\ ContraOf(ranked[k]) # ContraOf(ranked[j])
                /\ ranked[k]._score = ranked[j]._score

\* What each rule gives item v for the query token set q.
PartsOf(q, v) ==
    [tags |-> tagScore(q, v),
     category |-> heuristics(q),
     contra |-> contraindication(q, v),
     time |-> timePreference(trim(query), v),
     quick |-> quickPreference(q, v),
     transcript |-> transcriptBoost(q, v, transcriptCache)]

\* The category bonus as claimed, from whole-token membership alone.
ClaimedCategoryBonus(T) ==
    (IF T \cap Range(KW.travel) # {} \/ {<<"t", "r", "i", "p">>, <<"b", "a", "c", "k">>} \subseteq T
     THEN 4 ELSE 0)
    + (IF T \cap Range(KW.desk) # {} THEN 3 ELSE 0)
    + (IF T \cap Range(KW.energy) # {} THEN 2 ELSE 0)
    + (IF T \cap (Range(KW.relax) \cup Range(KW.stiff)) # {} THEN 1 ELSE 0)

\* C10: what rule 2 adds to an item's score is the sum of the four category
\* bonuses (travel or trip-and-back 4, desk 3, energy 2, relax-or-stiff 1
\* once), each decided by whole-token membership in the query token set, the
\* same for every item.
C10_CategoryBonus ==
    (Rendered /\ trim(query) # <<>>) =>
        LET q == QueryTokens
        IN \A i \in DOMAIN ranked :
              LET p == PartsOf(q, ranked[i])
              IN ranked[i]._score
                    - (p.tags + p.contra + p.time + p.quick + p.transcript)
                   = ClaimedCategoryBonus(q)

\* The query "flight back pain" adds 4 to an item that has no tags, no
\* transcript and no contraindications.
C10_Witness ==
    /\ Rendered
    /\ query = <<"f", "l", "i", "g", "h", "t", " ", "b", "a", "c", "k", " ", "p", "a", "i", "n">>
    /\ \E i \in DOMAIN ranked :
          /\ DOMAIN ranked[i] = {"id", "title", "lengthMin", "_score"}
          /\ ranked[i].id \notin DOMAIN transcriptCache
          /\ ranked[i]._score = 4

\* tok stands in the text t at position i.
StandsAt(tok, t, i) == \A k \in DOMAIN tok : t[i + k - 1] = tok[k]

\* The distinct tokens of q that occur as a substring of the text t.
TokensWithin(q, t) ==
    {tok \in q : \E i \in 1..(Len(t) - Len(tok) + 1) : StandsAt(tok, t, i)}

\* What the rules other than rule 6 give item v for the query token set q.
OtherThanTranscript(q, v) ==
    LET p == PartsOf(q, v)
    IN p.tags + p.category + p.contra + p.time + p.quick

\* C11: rule 6 contributes min(k, 6), k being the number of distinct query
\* tokens that occur as a substring of the item's cached transcript, and 0
\* when the transcript cache has no entry for the item's id; the query
\* "lunge twist" against a transcript containing both words contributes 2.
C11_TranscriptBoost ==
    Rendered =>
        LET q == QueryTokens
        IN \A i \in DOMAIN ranked :
              LET v == ranked[i]
                  rule6 == v._score - OtherThanTranscript(q, v)
              IN /\ IF v.id \in DOMAIN transcriptCache
                    THEN LET k == Cardinality(TokensWithin(q, transcriptCache[v.id]))
                         IN rule6 = (IF k < 6 THEN k ELSE 6)
                    ELSE rule6 = 0
                 /\ (/\ query = <<"l", "u", "n", "g", "e", " ", "t", "w", "i", "s", "t">>
                     /\ v.id \in DOMAIN transcriptCache
                     /\ includes(transcriptCache[v.id], <<"l", "u", "n", "g", "e">>)
                     /\ includes(transcriptCache[v.id], <<"t", "w", "i", "s", "t">>))
                       => rule6 = 2

\* A query with more than six distinct tokens, all spoken in one session's
\* transcript, ranked with a session that has no cache entry and one whose
\* transcript holds two of the tokens only inside longer words.
C11_Witness ==
    /\ Rendered
    /\ list = CatalogTalk
    /\ Cardinality(QueryTokens) > 6
    /\ \E i, j, k \in DOMAIN ranked :
          /\ ranked[i].id \in DOMAIN transcriptCache
          /\ TokensWithin(QueryTokens, transcriptCache[ranked[i].id]) = QueryTokens
          /\ ranked[i]._score = OtherThanTranscript(QueryTokens, ranked[i]) + 6
          /\ ranked[j].id \notin DOMAIN transcriptCache
          /\ ranked[j]._score = OtherThanTranscript(QueryTokens, ranked[j])
          /\ ranked[k].id \in DOMAIN transcriptCache
          /\ transcriptCache[ranked[k].id] = TalkInside
          /\ ranked[k]._score = OtherThanTranscript(QueryTokens, ranked[k]) + 1

\* The tag lists of an item.
TagLists == {"focuses", "intents", "vibe", "contraindications"}

\* b holds the entries of a in some order.
IsPermutation(a, b) ==
    /\ Len(a) = Len(b)
    /\ \E f \in [DOMAIN a -> DOMAIN a] :
          /\ \A i, j \in DOMAIN a : f[i] = f[j] => i = j
          /\ \A i \in DOMAIN a : b[i] = a[f[i]]

\* w is v with its tag lists permuted (and another id), with the same
\* transcript, if any.
TagsPermuted(v, w) ==
    /\ DOMAIN v = DOMAIN w
    /\ \A f \in DOMAIN v \ (TagLists \cup {"id", "_score"}) : v[f] = w[f]
    /\ \A f \in TagLists : IsPermutation(Field(v, f, <<>>), Field(w, f, <<>>))
    /\ TranscriptOf(v) = TranscriptOf(w)

\* The matching tag tokens of a tag list: the (tag, token) positions whose
\* token is in the query token set q.
MatchingTagTokens(q, tags) ==
    LET toks == [i \in DOMAIN tags |-> tokenize(tags[i])]
    IN UNION {{<<i, j>> : j \in {j \in DOMAIN toks[i] : toks[i][j] \in q}} :
                 i \in DOMAIN tags}

\* C12: permuting the tags within an item's focuses, intents, vibe or
\* contraindications lists leaves the score unchanged, and rule 1 adds 3
\* (focuses), 2 (intents) or 1 (vibe) per matching tag token whatever its
\* position.
C12_OrderIndependent ==
    Rendered =>
        LET q == QueryTokens
        IN /\ \A i, j \in DOMAIN ranked :
                 TagsPermuted(ranked[i], ranked[j])
                    => ranked[i]._score = ranked[j]._score
           /\ \A i \in DOMAIN ranked :
                 LET v == ranked[i]
                     p == PartsOf(q, v)
                 IN v._score - (p.category + p.contra + p.time + p.quick
                                + p.transcript)
                      = 3 * Cardinality(MatchingTagTokens(q, Field(v, "focuses", <<>>)))
                        + 2 * Cardinality(MatchingTagTokens(q, Field(v, "intents", <<>>)))
                        + Cardinality(MatchingTagTokens(q, Field(v, "vibe", <<>>)))

\* Two sessions whose tag lists are each other's in another order, for a
\* query that matches a focus tag standing at different positions in the
\* two, after a tag that matches too, and that draws the contraindication
\* penalty.
C12_Witness ==
    /\ Rendered
    /\ KneeQuery
    /\ \E i, j \in DOMAIN ranked :
          /\ TagsPermuted(ranked[i], ranked[j])
          /\ \A f \in TagLists : Field(ranked[i], f, <<>>) # Field(ranked[j], f, <<>>)
          /\ Cardinality(MatchingTagTokens(QueryTokens, ranked[i].focuses)) > 1
          /\ \E a, b \in DOMAIN ranked[i].focuses :
                /\ a # b
                /\ ranked[i].focuses[a] = ranked[j].focuses[b]
                /\ \E t \in QueryTokens : InSeq(t, tokenize(ranked[i].focuses[a]))
          /\ ContraPart(ranked[i]) = 0 - 2
          /\ ranked[i]._score = ranked[j]._score
          /\ ranked[i]._score > 0

\* The scheme of an Authorization header: what stands before its first space.
SchemeOf(auth) == splitOn(auth, " ")[1]

\* The password part of credentials: everything after the first colon.
PasswordPart(creds) ==
    IF \E i \in DOMAIN creds : creds[i] = ":"
    THEN SubSeq(creds, SetMin({i \in DOMAIN creds : creds[i] = ":"}) + 1, Len(creds))
    ELSE <<>>

\* The request's header uses the Basic scheme and the password part of the
\* credentials it encodes is the expected password.
Authorized ==
    /\ request.auth # <<>>
    /\ SchemeOf(request.auth[1]) = <<"B", "a", "s", "i", "c">>
    /\ request.sent # <<>>
    /\ PasswordPart(request.sent[1]) = <<"k", "a", "n", "d", "a">>

\* C13: the middleware forwards a request if and only if its Authorization
\* header uses the Basic scheme and the password part of the decoded
\* credentials equals the expected password; every other request (missing
\* header, other scheme, undecodable credentials, wrong password) is
\* answered with the 401 "Authentication required" response carrying a
\* WWW-Authenticate Basic challenge.
C13_ForwardIffPassword ==
    response # Pending =>
        IF Authorized THEN response = Forwarded
        ELSE /\ response.kind = "response"
             /\ response.status = 401
             /\ response.body = "Authentication required"
             /\ startsWith(response.challenge, "Basic")

\* The same for the requests whose header opens with "Basic", one space and
\* credentials that atob decodes.
C13_WhenDecodable ==
    (/\ response # Pending
     /\ request.auth # <<>> => (/\ request.sent # <<>>
                                /\ ~startsWith(request.auth[1], <<"B", "a", "s", "i", "c", " ", " ">>)))
        => C13_ForwardIffPassword
====
